---- MODULE Spec2Model ----
(***************************************************************************)
(* Water-quality pipeline: data/water_quality_db.py (load, clean, insert   *)
(* into the mongomock collection) and api/water_quality_api.py (the query  *)
(* handlers over that collection).                                         *)
(*                                                                         *)
(* Conventions of the model                                                *)
(*  - a Python str that the code takes apart is a sequence of one-letter   *)
(*    strings; a str that is only compared (a column header, a method tag) *)
(*    is a TLA+ string;                                                    *)
(*  - a float is an exact integer (no rounding is modelled);               *)
(*  - a naive datetime is <<year, month, day, hour, minute, second,        *)
(*    microsecond>>, ordered lexicographically as Python orders it;        *)
(*  - a cell value is a record tagged by k: "num" (v), "dt" (v), "nan".    *)
(***************************************************************************)
EXTENDS Integers, Sequences, FiniteSets, TLC

VARIABLES
    files,              \* the content found at each entry of `paths`
    legacy_iso,         \* TRUE: datetime.fromisoformat of Python 3.7-3.10
    pc,                 \* "start" | "loaded" | "cleaned" | "serving" | "crashed"
                        \* | "no_database" (db_collection = None)
    df,                 \* the DataFrame handed from one __init__ step to the next
    loaded_df,          \* history: the frame _load_and_standardize_data returned
    collection,         \* WaterQualityDB.collection: the documents, insertion order
    original_rows,      \* WaterQualityDB.original_rows
    removed_outliers,   \* WaterQualityDB.removed_outliers
    remaining_rows,     \* WaterQualityDB.remaining_rows
    req,                \* the request being answered (NoReq when idle)
    resp,               \* its response
    iso_string,         \* argument of the last safe_iso_to_datetime call
    iso_result          \* and what it returned

vars == <<files, legacy_iso, pc, df, loaded_df, collection, original_rows,
          removed_outliers, remaining_rows, req, resp, iso_string, iso_result>>

----------------------------------------------------------------------------
(* Python str operations on sequences of characters *)

Digits == {"0", "1", "2", "3", "4", "5", "6", "7", "8", "9"}

DigitVal(c) ==
    CASE c = "0" -> 0 [] c = "1" -> 1 [] c = "2" -> 2 [] c = "3" -> 3
      [] c = "4" -> 4 [] c = "5" -> 5 [] c = "6" -> 6 [] c = "7" -> 7
      [] c = "8" -> 8 [] c = "9" -> 9

DigitChar(d) == <<"0", "1", "2", "3", "4", "5", "6", "7", "8", "9">>[d + 1]

AllDigits(s) == \A i \in 1..Len(s) : s[i] \in Digits

\* int(s) of a string of digits
RECURSIVE DigitsToInt(_)
DigitsToInt(s) ==
    IF s = <<>> THEN 0
    ELSE 10 * DigitsToInt(SubSeq(s, 1, Len(s) - 1)) + DigitVal(s[Len(s)])

\* str(n) for n >= 0
RECURSIVE IntToDigits(_)
IntToDigits(n) ==
    IF n < 10 THEN <<DigitChar(n)>>
    ELSE IntToDigits(n \div 10) \o <<DigitChar(n % 10)>>

\* c in s
Contains(s, c) == \E i \in 1..Len(s) : s[i] = c

\* s.find(c): 1-based, 0 when absent
Find(s, c) ==
    IF Contains(s, c)
    THEN CHOOSE i \in 1..Len(s) : s[i] = c /\ \A j \in 1..(i - 1) : s[j] # c
    ELSE 0

\* s.rfind(c): 1-based, 0 when absent
RFind(s, c) ==
    IF Contains(s, c)
    THEN CHOOSE i \in 1..Len(s) : s[i] = c /\ \A j \in (i + 1)..Len(s) : s[j] # c
    ELSE 0

\* s.replace(c, '')
Remove(s, c) == SelectSeq(s, LAMBDA x : x # c)

\* s[:n]
Prefix(s, n) == SubSeq(s, 1, IF n < Len(s) THEN n ELSE Len(s))

\* s[i:] with i a 1-based first position
From(s, i) == SubSeq(s, i, Len(s))

Zeros(n) == [i \in 1..n |-> "0"]

\* s.zfill(width): zeros on the left, after a leading sign
ZFill(s, width) ==
    IF Len(s) >= width THEN s
    ELSE IF s # <<>> /\ s[1] \in {"+", "-"}
         THEN <<s[1]>> \o Zeros(width - Len(s)) \o From(s, 2)
         ELSE Zeros(width - Len(s)) \o s

----------------------------------------------------------------------------
(* datetime *)

NoneDt == [ok |-> FALSE, dt |-> <<0, 0, 0, 0, 0, 0, 0>>]
SomeDt(d) == [ok |-> TRUE, dt |-> d]

IsLeap(y) == (y % 4 = 0 /\ y % 100 # 0) \/ y % 400 = 0

DaysInMonth(y, m) ==
    IF m = 2 THEN (IF IsLeap(y) THEN 29 ELSE 28)
    ELSE IF m \in {4, 6, 9, 11} THEN 30 ELSE 31

\* a < b on naive datetimes
DtLess(a, b) ==
    \E i \in 1..7 : a[i] < b[i] /\ \A j \in 1..(i - 1) : a[j] = b[j]

DtLeq(a, b) == a = b \/ DtLess(a, b)

\* 'YYYY-MM-DD'
ParseDate(s) ==
    IF /\ Len(s) = 10
       /\ s[5] = "-" /\ s[8] = "-"
       /\ AllDigits(SubSeq(s, 1, 4)) /\ AllDigits(SubSeq(s, 6, 7))
       /\ AllDigits(SubSeq(s, 9, 10))
    THEN LET y == DigitsToInt(SubSeq(s, 1, 4))
             m == DigitsToInt(SubSeq(s, 6, 7))
             d == DigitsToInt(SubSeq(s, 9, 10))
         IN  IF y >= 1 /\ m \in 1..12 /\ d >= 1 /\ d <= DaysInMonth(y, m)
             THEN [ok |-> TRUE, v |-> <<y, m, d>>]
             ELSE [ok |-> FALSE, v |-> <<0, 0, 0>>]
    ELSE [ok |-> FALSE, v |-> <<0, 0, 0>>]

\* 'HH', 'HH:MM' or 'HH:MM:SS' (a time of day, or a UTC offset)
ParseHMS(s) ==
    LET bad == [ok |-> FALSE, v |-> <<0, 0, 0>>]
        two(i) == SubSeq(s, i, i + 1)
        val(i) == DigitsToInt(two(i))
    IN  IF Len(s) \notin {2, 5, 8} THEN bad
        ELSE IF ~AllDigits(two(1)) THEN bad
        ELSE IF Len(s) >= 5 /\ (s[3] # ":" \/ ~AllDigits(two(4))) THEN bad
        ELSE IF Len(s) = 8 /\ (s[6] # ":" \/ ~AllDigits(two(7))) THEN bad
        ELSE LET h  == val(1)
                 mi == IF Len(s) >= 5 THEN val(4) ELSE 0
                 se == IF Len(s) = 8 THEN val(7) ELSE 0
             IN  IF h < 24 /\ mi < 60 /\ se < 60
                 THEN [ok |-> TRUE, v |-> <<h, mi, se>>]
                 ELSE bad

\* The fraction of a second after the separator, in microseconds.
\* Python 3.7-3.10 take exactly 3 or 6 digits; 3.11 and later take any
\* number of digits and drop those after the sixth.
ParseFraction(f, legacy) ==
    LET bad == [ok |-> FALSE, v |-> 0]
    IN  IF f = <<>> \/ ~AllDigits(f) THEN bad
        ELSE IF legacy
             THEN IF Len(f) = 6 THEN [ok |-> TRUE, v |-> DigitsToInt(f)]
                  ELSE IF Len(f) = 3 THEN [ok |-> TRUE, v |-> 1000 * DigitsToInt(f)]
                  ELSE bad
             ELSE [ok |-> TRUE,
                   v |-> DigitsToInt(Prefix(f \o Zeros(6), 6))]

\* 'HH[:MM[:SS[.ffffff]]]' without the offset
ParseTimeOfDay(s, legacy) ==
    LET bad == [ok |-> FALSE, v |-> <<0, 0, 0, 0>>]
        seps == IF legacy THEN {"."} ELSE {".", ","}
    IN  IF Len(s) <= 8
        THEN LET t == ParseHMS(s)
             IN  IF t.ok THEN [ok |-> TRUE, v |-> t.v \o <<0>>] ELSE bad
        ELSE LET t == ParseHMS(SubSeq(s, 1, 8))
                 f == ParseFraction(From(s, 10), legacy)
             IN  IF t.ok /\ s[9] \in seps /\ f.ok
                 THEN [ok |-> TRUE, v |-> t.v \o <<f.v>>]
                 ELSE bad

\* The UTC offset that follows the time of day: nothing, '+HH:MM',
\* '-HH:MM', and from Python 3.11 on 'Z'.
ValidOffset(s, legacy) ==
    \/ s = <<>>
    \/ ~legacy /\ s = <<"Z">>
    \/ /\ s # <<>>
       /\ s[1] \in {"+", "-"}
       /\ ParseHMS(From(s, 2)).ok

\* First position of a UTC-offset mark in a time string (0: none).
OffsetPos(t, legacy) ==
    LET marks == IF legacy THEN {"+", "-"} ELSE {"+", "-", "Z"}
        hits  == {i \in 1..Len(t) : t[i] \in marks}
    IN  IF hits = {} THEN 0
        ELSE CHOOSE i \in hits : \A j \in hits : i <= j

\* datetime.fromisoformat(s).replace(tzinfo=None) for the extended format
\* 'YYYY-MM-DD[*HH[:MM[:SS[.f]]][offset]]'; NoneDt stands for ValueError.
fromisoformat(s, legacy) ==
    IF Len(s) < 10 THEN NoneDt
    ELSE LET d == ParseDate(SubSeq(s, 1, 10))
         IN  IF ~d.ok THEN NoneDt
             ELSE IF Len(s) = 10 THEN SomeDt(d.v \o <<0, 0, 0, 0>>)
             ELSE IF Len(s) = 11 THEN NoneDt
             ELSE LET t   == From(s, 12)
                      p   == OffsetPos(t, legacy)
                      tod == IF p = 0 THEN t ELSE SubSeq(t, 1, p - 1)
                      off == IF p = 0 THEN <<>> ELSE From(t, p)
                      r   == ParseTimeOfDay(tod, legacy)
                  IN  IF r.ok /\ ValidOffset(off, legacy)
                      THEN SomeDt(d.v \o r.v)
                      ELSE NoneDt

\* The except-ValueError branch of safe_iso_to_datetime.
iso_fallback(iso_string_, legacy) ==
    IF ~Contains(iso_string_, ".") THEN NoneDt
    ELSE LET dot           == RFind(iso_string_, ".")
             base_part     == SubSeq(iso_string_, 1, dot - 1)
             micro_tz_part == From(iso_string_, dot + 1)
             branch ==
                 IF Contains(micro_tz_part, "Z") THEN "Z"
                 ELSE IF Contains(micro_tz_part, "+") THEN "+"
                 ELSE IF Contains(micro_tz_part, "-") /\ Contains(micro_tz_part, ":")
                      THEN "-" ELSE ""
             tz_index ==
                 IF branch = "+" THEN Find(micro_tz_part, "+")
                 ELSE IF branch = "-" THEN RFind(micro_tz_part, "-")
                 ELSE 0
             tz_suffix ==
                 IF branch = "Z" THEN <<"Z">>
                 ELSE IF branch \in {"+", "-"} THEN From(micro_tz_part, tz_index)
                 ELSE <<>>
             micro_part ==
                 IF branch = "Z" THEN Remove(micro_tz_part, "Z")
                 ELSE IF branch \in {"+", "-"}
                      THEN SubSeq(micro_tz_part, 1, tz_index - 1)
                      ELSE micro_tz_part
             clean_micro == ZFill(Prefix(micro_part, 6), 6)
             clean_iso_string == base_part \o <<".">> \o clean_micro \o tz_suffix
         IN  fromisoformat(clean_iso_string, legacy)

safe_iso_to_datetime_on(iso_string_, legacy) ==
    LET dt == fromisoformat(iso_string_, legacy)
    IN  IF dt.ok THEN dt ELSE iso_fallback(iso_string_, legacy)

----------------------------------------------------------------------------
(* data/water_quality_db.py: configuration *)

\* len(paths)
NumPaths == 4

required_cols ==
    <<"timestamp", "latitude", "longitude", "temperature", "salinity", "odo">>

RequiredSet == {required_cols[i] : i \in 1..Len(required_cols)}

numeric_cols_to_check ==
    {"temperature", "salinity", "odo", "latitude", "longitude"}

numeric_cols == <<"temperature", "salinity", "odo">>

\* COLUMN_REMAP.get(old_col, old_col)
COLUMN_REMAP(old_col) ==
    CASE old_col = "timestamp"        -> "timestamp"
      [] old_col = "date"             -> "date"
      [] old_col = "date m/d/y"       -> "date"
      [] old_col = "time"             -> "time"
      [] old_col = "time hh:mm:ss"    -> "time"
      [] old_col = "date and time"    -> "timestamp"
      [] old_col = "latitude"         -> "latitude"
      [] old_col = "longitude"        -> "longitude"
      [] old_col = "long"             -> "longitude"
      [] old_col = "temperature"      -> "temperature"
      [] old_col = "temp c"           -> "temperature"
      [] old_col = "temp (c)"         -> "temperature"
      [] old_col = "salinity"         -> "salinity"
      [] old_col = "sal ppt"          -> "salinity"
      [] old_col = "salinity (ppt)"   -> "salinity"
      [] old_col = "odo"              -> "odo"
      [] old_col = "odo mg/l"         -> "odo"
      [] old_col = "d.o."             -> "odo"
      [] old_col = "dissolved oxygen" -> "odo"
      [] OTHER                        -> old_col

\* str(x).lower().strip() on the raw headers that occur in the inputs
LowerStrip(x) ==
    CASE x = "Timestamp"      -> "timestamp"
      [] x = "Date m/d/y"     -> "date m/d/y"
      [] x = "Time hh:mm:ss"  -> "time hh:mm:ss"
      [] x = "Latitude"       -> "latitude"
      [] x = "Longitude"      -> "longitude"
      [] x = "Long"           -> "long"
      [] x = "Temp C"         -> "temp c"
      [] x = "Temp (C)"       -> "temp (c)"
      [] x = " Temperature "  -> "temperature"
      [] x = "Sal ppt"        -> "sal ppt"
      [] x = "Salinity"       -> "salinity"
      [] x = "ODO mg/L"       -> "odo mg/l"
      [] x = "ODO"            -> "odo"
      [] x = "Depth m"        -> "depth m"
      [] OTHER                -> x

----------------------------------------------------------------------------
(* cells and DataFrames *)

Num(n)  == [k |-> "num", v |-> n]
Dt(d)   == [k |-> "dt", v |-> d]
NaN     == [k |-> "nan", v |-> 0]
Inf     == [k |-> "inf", v |-> 0]        \* the text 'inf' (or '-inf')
Text    == [k |-> "text", v |-> 0]       \* text that is no number and no date
DateOf(d) == [k |-> "date", v |-> d]     \* the text of a calendar date
TimeOf(t) == [k |-> "time", v |-> t]     \* the text of a time of day

\* pd.DataFrame()
EmptyFrame == [columns |-> {}, rows |-> <<>>]

SeqToSet(s) == {s[i] : i \in 1..Len(s)}

\* positions of the first column carrying each label
FirstWith(cols, name) ==
    CHOOSE i \in 1..Len(cols) : cols[i] = name /\ \A j \in 1..(i - 1) : cols[j] # name

\* Lines 73-85: the labels after df.rename(columns=new_cols_map). A label is
\* a key of new_cols_map when, at its first occurrence, its standard name
\* was not yet in mapped_names; rename then relabels every column carrying
\* that label, and leaves the others as they are.
RenamedColumns(cols) ==
    LET standard_name(i) == COLUMN_REMAP(cols[i])
        \* the iteration maps column i
        maps(i) == \A j \in 1..(i - 1) : standard_name(j) # standard_name(i)
        in_map(label) == \E i \in 1..Len(cols) : cols[i] = label /\ maps(i)
    IN  [i \in 1..Len(cols) |->
            IF in_map(cols[i]) THEN COLUMN_REMAP(cols[i]) ELSE cols[i]]

HasDuplicates(cols) ==
    \E i, j \in 1..Len(cols) : i # j /\ cols[i] = cols[j]

\* pd.to_datetime(..., errors='coerce') of one cell
to_datetime(cell) ==
    IF cell.k = "dt" THEN cell ELSE NaN

\* pd.to_datetime(date.astype(str) + ' ' + time.astype(str), errors='coerce')
to_datetime_combined(date, time) ==
    IF date.k = "date" /\ time.k = "time"
    THEN Dt(date.v \o time.v \o <<0>>)
    ELSE NaN

\* pd.to_numeric(..., errors='coerce') of one cell
to_numeric(cell) ==
    IF cell.k \in {"num", "inf"} THEN cell ELSE NaN

\* df.replace([np.inf, -np.inf], np.nan) of one cell
replace_inf(cell) ==
    IF cell.k = "inf" THEN NaN ELSE cell

\* Lines 67-108, the body of the try block for one file: the frame appended
\* to all_data, or ok = FALSE when an exception is caught and the file is
\* skipped.
standardize_file(f) ==
    IF ~f.exists \/ ~f.readable THEN [ok |-> FALSE, frame |-> EmptyFrame]
    ELSE
    LET lowered  == [i \in 1..Len(f.header) |-> LowerStrip(f.header[i])]
        cols     == RenamedColumns(lowered)
        labels   == SeqToSet(cols)
        combine  == "date" \in labels /\ "time" \in labels
        kept     == {c \in RequiredSet :
                        c \in labels \/ (c = "timestamp" /\ combine)}
        value(raw, c) ==
            IF c = "timestamp"
            THEN IF combine
                 THEN to_datetime_combined(raw[FirstWith(cols, "date")],
                                           raw[FirstWith(cols, "time")])
                 ELSE to_datetime(raw[FirstWith(cols, c)])
            ELSE IF c \in numeric_cols_to_check
                 THEN replace_inf(to_numeric(raw[FirstWith(cols, c)]))
                 ELSE raw[FirstWith(cols, c)]
    IN  \* a frame with duplicate labels fails in to_datetime or in
        \* df.filter (reindex on an axis with duplicate labels)
        IF HasDuplicates(cols) /\ kept # {}
        THEN [ok |-> FALSE, frame |-> EmptyFrame]
        ELSE [ok |-> TRUE,
              frame |-> [columns |-> kept,
                         rows |-> [r \in 1..Len(f.rows) |->
                                      [c \in kept |-> value(f.rows[r], c)]]]]

\* pd.concat(all_data, ignore_index=True): the union of the columns, rows in
\* file order, NaN where a file lacks a column
RECURSIVE concat(_)
concat(all_data) ==
    IF all_data = <<>> THEN EmptyFrame
    ELSE LET head == all_data[1]
             rest == concat(Tail(all_data))
             cs   == head.columns \cup rest.columns
             widen(rows) ==
                 [r \in 1..Len(rows) |->
                     [c \in cs |-> IF c \in DOMAIN rows[r] THEN rows[r][c] ELSE NaN]]
         IN  [columns |-> cs, rows |-> widen(head.rows) \o widen(rest.rows)]

\* a dropna whose subset leaves odo out
dropna_without_odo(frame) ==
    [columns |-> frame.columns,
     rows |-> SelectSeq(frame.rows,
                 LAMBDA row : \A c \in RequiredSet \ {"odo"} : row[c].k # "nan")]

\* combined_df.dropna(subset=required_cols, how='any')
dropna(frame) ==
    [columns |-> frame.columns,
     rows |-> SelectSeq(frame.rows,
                 LAMBDA row : \A c \in RequiredSet : row[c].k # "nan")]

\* ascending order of the values of a set of datetimes
MinDt(S) == CHOOSE d \in S : \A e \in S : DtLeq(d, e)

RemoveAt(s, i) == SubSeq(s, 1, i - 1) \o SubSeq(s, i + 1, Len(s))

\* the distinct orders in which the rows of s can be laid out
RECURSIVE Arrangements(_)
Arrangements(s) ==
    IF Len(s) <= 1 \/ \A i \in 1..Len(s) : s[i] = s[1] THEN {s}
    ELSE UNION {{<<s[i]>> \o r : r \in Arrangements(RemoveAt(s, i))} :
                   i \in 1..Len(s)}

RECURSIVE SortedOutcomes(_, _)
SortedOutcomes(rows, keys) ==
    IF keys = {} THEN {<<>>}
    ELSE LET k      == MinDt(keys)
             bucket == SelectSeq(rows, LAMBDA row : row["timestamp"].v = k)
         IN  {a \o r : a \in Arrangements(bucket),
                       r \in SortedOutcomes(rows, keys \ {k})}

\* a load that leaves the rows in file order
sort_values_skipped(frame) == {frame}

\* combined_df.sort_values('timestamp').reset_index(drop=True): ascending by
\* timestamp. The default kind is 'quicksort', which is not stable, so rows
\* with equal timestamps may come out in any order: the set of all outcomes.
sort_values(frame) ==
    {[columns |-> frame.columns, rows |-> rows] :
        rows \in SortedOutcomes(frame.rows,
                    {frame.rows[i]["timestamp"].v : i \in 1..Len(frame.rows)})}

\* all_data of _load_and_standardize_data: the frames of the files that were
\* read, in the order of `paths`
RECURSIVE all_data_of(_)
all_data_of(fs) ==
    IF fs = <<>> THEN <<>>
    ELSE LET r == standardize_file(fs[1])
         IN  (IF r.ok THEN <<r.frame>> ELSE <<>>) \o all_data_of(Tail(fs))

\* _load_and_standardize_data: the possible results. raised = TRUE is the
\* KeyError of dropna(subset=required_cols) when no file supplied one of the
\* required columns; counted is the value assigned to self.original_rows
\* (-1: no assignment).
_load_and_standardize_data(fs) ==
    LET all_data    == all_data_of(fs)
        combined_df == concat(all_data)
    IN  IF all_data = <<>>
        THEN {[raised |-> FALSE, frame |-> EmptyFrame, counted |-> -1]}
        ELSE IF ~(RequiredSet \subseteq combined_df.columns)
        THEN {[raised |-> TRUE, frame |-> EmptyFrame,
               counted |-> Len(combined_df.rows)]}
        ELSE {[raised |-> FALSE, frame |-> sorted,
               counted |-> Len(combined_df.rows)] :
                 sorted \in sort_values(dropna(combined_df))}

\* df.empty
empty(frame) == frame.columns = {} \/ frame.rows = <<>>

\* xs[lo] + ... + xs[hi], halving the range
RECURSIVE SumRange(_, _, _)
SumRange(xs, lo, hi) ==
    IF lo > hi THEN 0
    ELSE IF lo = hi THEN xs[lo]
    ELSE LET mid == (lo + hi) \div 2
         IN  SumRange(xs, lo, mid) + SumRange(xs, mid + 1, hi)

\* _clean_outliers(df, z_score_threshold=3.0)
z_score_threshold == 3

\* The statistics of one column: n rows, their sum s, and
\* q = sum((n*x - s)^2), so that mean = s/n and std^2 = q / (n^2 * (n-1))
\* (pandas' std is the sample standard deviation, ddof = 1).
ColumnStats(rows, col) ==
    LET n == Len(rows)
        s == SumRange([i \in 1..n |-> rows[i][col].v], 1, n)
    IN  [n |-> n, s |-> s,
         q |-> SumRange([i \in 1..n |-> (n * rows[i][col].v - s) * (n * rows[i][col].v - s)],
                        1, n)]

\* np.where(std == 0, 0.0, ((x - mean) / std).abs()) > threshold.
\* With one row std is NaN and the comparison is False; with std == 0 the
\* z-score is 0.0; otherwise |x - mean| / std > threshold, squared and
\* cleared of its denominators.
ZScoreAbove(x, st, threshold) ==
    IF st.n < 2 THEN FALSE
    ELSE IF st.q = 0 THEN 0 > threshold
    ELSE (st.n - 1) * (st.n * x - st.s) * (st.n * x - st.s)
             > threshold * threshold * st.q

\* a mask that asks every z-score column to exceed the threshold: .all(axis=1)
outlier_mask_all(stats, row) ==
    \A i \in 1..Len(numeric_cols) :
        ZScoreAbove(row[numeric_cols[i]].v, stats[numeric_cols[i]],
                    z_score_threshold)

\* outlier_mask = (df_clean[z_cols] > z_score_threshold).any(axis=1),
\* stats holding the statistics of each numeric column
outlier_mask(stats, row) ==
    \E i \in 1..Len(numeric_cols) :
        ZScoreAbove(row[numeric_cols[i]].v, stats[numeric_cols[i]],
                    z_score_threshold)

\* _clean_outliers: the frame returned and the counters as they are left
\* (orig is self.original_rows; removed and remaining the values before).
_clean_outliers(frame, orig, removed, remaining) ==
    IF empty(frame)
    THEN [frame |-> frame, removed |-> removed, remaining |-> remaining]
    ELSE LET df_cleaned ==
                 \* the statistics are those of the whole frame, taken once
                 CHOOSE kept \in
                     {SelectSeq(frame.rows, LAMBDA row : ~outlier_mask(stats, row)) :
                         stats \in {[c \in SeqToSet(numeric_cols) |->
                                        ColumnStats(frame.rows, c)]}} : TRUE
         IN  [frame |-> [columns |-> frame.columns, rows |-> df_cleaned],
              removed |-> orig - Len(df_cleaned),
              remaining |-> Len(df_cleaned)]

\* df.where(df.notna(), None).to_dict(orient="records")
None == [k |-> "none", v |-> 0]

to_records(frame) ==
    [r \in 1..Len(frame.rows) |->
        [c \in frame.columns |->
            IF frame.rows[r][c].k = "nan" THEN None ELSE frame.rows[r][c]]]

----------------------------------------------------------------------------
(* api/water_quality_api.py: helpers *)

\* safe_iso_to_datetime(iso_string) under the interpreter in use
safe_iso_to_datetime(iso_string_) ==
    safe_iso_to_datetime_on(iso_string_, legacy_iso)

\* int(s) of a decimal integer literal with an optional sign; ok = FALSE
\* stands for ValueError
ParseInt(s) ==
    LET signed == s # <<>> /\ s[1] \in {"+", "-"}
        body   == IF signed THEN From(s, 2) ELSE s
    IN  IF body = <<>> \/ ~AllDigits(body) THEN [ok |-> FALSE, v |-> 0]
        ELSE [ok |-> TRUE,
              v |-> IF signed /\ s[1] = "-" THEN 0 - DigitsToInt(body)
                    ELSE DigitsToInt(body)]

RECURSIVE Pow10(_)
Pow10(n) == IF n = 0 THEN 1 ELSE 10 * Pow10(n - 1)

\* float(s) of a decimal literal 'd', 'd.d', '.d' or 'd.' with an optional
\* sign, as the exact fraction n / d; ok = FALSE stands for ValueError.
\* (The request values of the model are such literals or text holding no
\* number.)
ParseFloat(s) ==
    LET bad    == [ok |-> FALSE, n |-> 0, d |-> 1]
        signed == s # <<>> /\ s[1] \in {"+", "-"}
        body   == IF signed THEN From(s, 2) ELSE s
        dot    == Find(body, ".")
        whole  == IF dot = 0 THEN body ELSE SubSeq(body, 1, dot - 1)
        frac   == IF dot = 0 THEN <<>> ELSE From(body, dot + 1)
        mag    == DigitsToInt(whole \o frac)
    IN  IF whole \o frac = <<>> \/ ~AllDigits(whole \o frac) THEN bad
        ELSE [ok |-> TRUE,
              n |-> IF signed /\ s[1] = "-" THEN 0 - mag ELSE mag,
              d |-> Pow10(Len(frac))]

Has(args, key) == key \in DOMAIN args

NoQuery == <<>>

\* the (min_key, max_key) of the numeric range filters, in dict order, with
\* the message of the ValueError branch for each
filters ==
    <<[field |-> "temperature", min_key |-> "min_temp", max_key |-> "max_temp",
       invalid |-> "Invalid value for min_temp or max_temp. Must be a number."],
      [field |-> "salinity", min_key |-> "min_sal", max_key |-> "max_sal",
       invalid |-> "Invalid value for min_sal or max_sal. Must be a number."],
      [field |-> "odo", min_key |-> "min_odo", max_key |-> "max_odo",
       invalid |-> "Invalid value for min_odo or max_odo. Must be a number."]>>

\* One bound of a query: present or not, and its value.
Bound(present, value) == [on |-> present, v |-> value]

\* query['timestamp'] of build_mongo_query from the two parsed bounds, or
\* the error it returns
TimeConditionOf(args, start_dt, end_dt) ==
    IF Has(args, "start") /\ ~start_dt.ok
    THEN [error |-> "Invalid 'start' date format."]
    ELSE IF Has(args, "end") /\ ~end_dt.ok
    THEN [error |-> "Invalid 'end' date format."]
    ELSE [error |-> "",
          gte |-> Bound(Has(args, "start"), start_dt.dt),
          lte |-> Bound(Has(args, "end"), end_dt.dt)]

TimeCondition(args) ==
    TimeConditionOf(args,
        IF Has(args, "start") THEN safe_iso_to_datetime(args["start"]) ELSE NoneDt,
        IF Has(args, "end") THEN safe_iso_to_datetime(args["end"]) ELSE NoneDt)

\* query[field] of build_mongo_query for one numeric field from the two
\* parsed bounds, or the error
NumericConditionOf(args, f, lo, hi) ==
    IF ~lo.ok \/ ~hi.ok
    THEN [error |-> f.invalid]
    ELSE [error |-> "",
          gte |-> Bound(Has(args, f.min_key), [n |-> lo.n, d |-> lo.d]),
          lte |-> Bound(Has(args, f.max_key), [n |-> hi.n, d |-> hi.d])]

NoFloat == [ok |-> TRUE, n |-> 0, d |-> 1]

NumericCondition(args, f) ==
    NumericConditionOf(args, f,
        IF Has(args, f.min_key) THEN ParseFloat(args[f.min_key]) ELSE NoFloat,
        IF Has(args, f.max_key) THEN ParseFloat(args[f.max_key]) ELSE NoFloat)

\* (query, error) of build_mongo_query from the conditions of the fields.
\* The query maps each filtered field to its $gte and $lte bounds.
QueryOf(args, tc, nc) ==
    LET used == {i \in 1..Len(filters) :
                    Has(args, filters[i].min_key) \/ Has(args, filters[i].max_key)}
        bad  == {i \in used : nc[i].error # ""}
        timed == Has(args, "start") \/ Has(args, "end")
    IN  IF timed /\ tc.error # "" THEN [error |-> tc.error, query |-> NoQuery]
        ELSE IF bad # {}
        THEN [error |-> nc[CHOOSE i \in bad : \A j \in bad : i <= j].error,
              query |-> NoQuery]
        ELSE [error |-> "",
              query |->
                  [fld \in (IF timed THEN {"timestamp"} ELSE {})
                           \cup {filters[i].field : i \in used} |->
                      IF fld = "timestamp"
                      THEN [gte |-> tc.gte, lte |-> tc.lte]
                      ELSE LET i == CHOOSE j \in used : filters[j].field = fld
                           IN  [gte |-> nc[i].gte, lte |-> nc[i].lte]]]

\* build_mongo_query(args)
build_mongo_query(args) ==
    QueryOf(args, TimeCondition(args),
            [i \in 1..Len(filters) |-> NumericCondition(args, filters[i])])

----------------------------------------------------------------------------
(* mongomock: filtering, sorting, skip and limit *)

\* value >= bound and value <= bound on a stored value; a stored null
\* matches no range condition
ValueGte(cell, fld, bound) ==
    IF cell.k = "none" THEN FALSE
    ELSE IF fld = "timestamp" THEN DtLeq(bound, cell.v)
    ELSE bound.n <= cell.v * bound.d

ValueLte(cell, fld, bound) ==
    IF cell.k = "none" THEN FALSE
    ELSE IF fld = "timestamp" THEN DtLeq(cell.v, bound)
    ELSE cell.v * bound.d <= bound.n

\* the document satisfies every condition of the query
Matches(doc, query) ==
    \A fld \in DOMAIN query :
        /\ query[fld].gte.on => ValueGte(doc[fld], fld, query[fld].gte.v)
        /\ query[fld].lte.on => ValueLte(doc[fld], fld, query[fld].lte.v)

\* helpers.patch_datetime_awareness_in_document of mongomock: a datetime is
\* kept to the millisecond, as BSON does; applied to the documents inserted
\* and to the values of a filter
patch_datetime(d) == [d EXCEPT ![7] = (d[7] \div 1000) * 1000]

patch_document(doc) ==
    [key \in DOMAIN doc |->
        IF doc[key].k = "dt" THEN Dt(patch_datetime(doc[key].v)) ELSE doc[key]]

patch_query(query) ==
    [fld \in DOMAIN query |->
        IF fld = "timestamp"
        THEN [gte |-> Bound(query[fld].gte.on, patch_datetime(query[fld].gte.v)),
              lte |-> Bound(query[fld].lte.on, patch_datetime(query[fld].lte.v))]
        ELSE query[fld]]

\* collection.insert_many(records)
insert_many(coll, records) ==
    coll \o [i \in 1..Len(records) |-> patch_document(records[i])]

\* collection.find(query): the matching documents in insertion order
find(coll, query) ==
    SelectSeq(coll, LAMBDA doc : Matches(doc, patch_query(query)))

\* a count that ignores the filter: estimated_document_count()
count_documents_all(coll, query) == Len(coll)

\* collection.count_documents(query)
count_documents(coll, query) == Len(find(coll, query))

\* the documents whose timestamp is one of keys, ascending by timestamp,
\* insertion order kept among equal timestamps
RECURSIVE StableByTimestamp(_, _)
StableByTimestamp(docs, keys) ==
    IF keys = {} THEN <<>>
    ELSE LET k == MinDt(keys)
         IN  SelectSeq(docs, LAMBDA d : d["timestamp"].k = "dt" /\ d["timestamp"].v = k)
                 \o StableByTimestamp(docs, keys \ {k})

\* cursor.sort('timestamp', 1): Python's sorted, which is stable; nulls
\* come before every date
cursor_sort(docs) ==
    SelectSeq(docs, LAMBDA d : d["timestamp"].k # "dt")
        \o StableByTimestamp(docs,
               {docs[i]["timestamp"].v :
                   i \in {j \in 1..Len(docs) : docs[j]["timestamp"].k = "dt"}})

\* a skip that starts one document early: results[skip - 1:]
cursor_skip_early(docs, skip) ==
    IF skip = 0 THEN docs ELSE SubSeq(docs, skip, Len(docs))

\* a skip that stops at the last document
cursor_skip_clamped(docs, skip) ==
    IF docs # <<>> /\ skip >= Len(docs) THEN <<docs[Len(docs)]>>
    ELSE SubSeq(docs, skip + 1, Len(docs))

\* results[skip:]
cursor_skip(docs, skip) == SubSeq(docs, skip + 1, Len(docs))

\* results[:limit] when limit is not 0; limit(0) sets no limit
cursor_limit(docs, limit) ==
    IF limit = 0 THEN docs ELSE Prefix(docs, limit)

\* find(query).skip(skip).limit(limit).sort('timestamp', 1), iterated: the
\* cursor sorts first, then skips, then limits, whatever the call order
find_skip_limit_sort(coll, query, skip, limit) ==
    cursor_limit(cursor_skip(cursor_sort(find(coll, query)), skip), limit)

\* an insert that stops after the first record
_insert_data_first(coll, frame) ==
    IF empty(frame) THEN coll
    ELSE insert_many(coll, <<to_records(frame)[1]>>)

\* _insert_data: the collection after it
_insert_data(coll, frame) ==
    IF empty(frame) THEN coll ELSE insert_many(coll, to_records(frame))

----------------------------------------------------------------------------
(* api/water_quality_api.py: handlers *)

\* the cap of min(int(args.get('limit', 100)), 1000), and the defaults
MaxLimit == 1000
DefaultLimit == 100
DefaultSkip == 0

Min(a, b) == IF a < b THEN a ELSE b

\* convert_decimals_to_float(item): a datetime becomes its isoformat() text,
\* kept as the value tagged "iso"; the other values pass through
convert_decimals_to_float(item) ==
    [key \in DOMAIN item |->
        IF item[key].k = "dt" THEN [k |-> "iso", v |-> item[key].v]
        ELSE item[key]]

\* [convert_decimals_to_float(item) for item in items_cursor]
Items(items_cursor) ==
    [i \in 1..Len(items_cursor) |-> convert_decimals_to_float(items_cursor[i])]

Failure(code, message, n_reads) ==
    [status |-> code, error |-> message, reads |-> n_reads]

\* get_observations after build_mongo_query and the two int() calls: the
\* response, with the number of reads of the collection made on the way
ObservationsOf(coll, built, lim, skp) ==
    IF built.error # "" THEN Failure(400, built.error, 0)
    ELSE IF ~lim.ok \/ ~skp.ok
    THEN Failure(400, "Limit and skip must be valid integers.", 0)
    ELSE IF Min(lim.v, MaxLimit) < 0 \/ skp.v < 0
    THEN Failure(400, "Limit and skip must be non-negative.", 0)
    ELSE [status |-> 200,
          count  |-> count_documents(coll, built.query),
          items  |-> Items(find_skip_limit_sort(coll, built.query, skp.v,
                                                Min(lim.v, MaxLimit))),
          reads  |-> 2]

\* get_observations
get_observations(coll, args) ==
    ObservationsOf(coll, build_mongo_query(args),
        IF Has(args, "limit") THEN ParseInt(args["limit"])
        ELSE [ok |-> TRUE, v |-> DefaultLimit],
        IF Has(args, "skip") THEN ParseInt(args["skip"])
        ELSE [ok |-> TRUE, v |-> DefaultSkip])

\* health_check
health_check == [status |-> 200, body |-> "ok", reads |-> 0]

\* ascending order of a sequence of integers
RECURSIVE SortedInts(_, _)
SortedInts(xs, values) ==
    IF values = {} THEN <<>>
    ELSE LET m == CHOOSE v \in values : \A w \in values : v <= w
         IN  SelectSeq(xs, LAMBDA x : x = m) \o SortedInts(xs, values \ {m})

\* four times the quantile at position j * (n + 1) / 4 counted from 1, the
\* convention that leaves the two ends out
Quantile4_exclusive(xs, j) ==
    LET sorted == SortedInts(xs, SeqToSet(xs))
        pos4   == IF j * (Len(xs) + 1) < 4 THEN 0 ELSE j * (Len(xs) + 1) - 4
        lo     == Min(pos4 \div 4, Len(xs) - 1)
        r      == pos4 % 4
    IN  (4 - r) * sorted[lo + 1] + r * sorted[Min(lo + 2, Len(xs))]

\* Four times series.quantile(j / 4), by linear interpolation between the
\* order statistics around position j * (n - 1) / 4
Quantile4(xs, j) ==
    LET sorted == SortedInts(xs, SeqToSet(xs))
        pos4   == j * (Len(xs) - 1)
        lo     == pos4 \div 4
        r      == pos4 % 4
    IN  IF r = 0 THEN 4 * sorted[lo + 1]
        ELSE (4 - r) * sorted[lo + 1] + r * sorted[lo + 2]

\* the values of a field that are not null: df[col].dropna()
NonNull(docs, col) ==
    LET kept == SelectSeq(docs, LAMBDA d : d[col].k = "num")
    IN  [i \in 1..Len(kept) |-> kept[i][col].v]

\* get_stats: mean is the fraction sum / count, the quantiles are in
\* quarters (q4 = 4 * quantile)
SeriesStats(xs) ==
    IF xs = <<>>
    THEN [count |-> 0, null |-> TRUE]
    ELSE [count |-> Len(xs), null |-> FALSE,
          mean |-> [n |-> SumRange(xs, 1, Len(xs)), d |-> Len(xs)],
          min |-> SortedInts(xs, SeqToSet(xs))[1],
          max |-> SortedInts(xs, SeqToSet(xs))[Len(xs)],
          q25 |-> Quantile4(xs, 1),
          q50 |-> Quantile4(xs, 2),
          q75 |-> Quantile4(xs, 3)]

get_stats(coll) ==
    LET all_items == find(coll, <<>>)
        \* pd.DataFrame([]) has no columns: the loop adds nothing
        columns == IF all_items = <<>> THEN {} ELSE SeqToSet(numeric_cols)
    IN  [status |-> 200,
         stats  |-> [col \in columns |-> SeriesStats(NonNull(all_items, col))],
         reads  |-> 1]

\* z_scores.abs() > k_factor for one value, k = k.n / k.d; st as ColumnStats.
\* With one row std is NaN and nothing compares greater.
ZAbsAbove(x, st, k) ==
    IF st.n < 2 THEN FALSE
    ELSE IF k.n < 0 THEN TRUE
    ELSE k.d * k.d * (st.n - 1) * (st.n * x - st.s) * (st.n * x - st.s)
             > k.n * k.n * st.q

\* fences that count a value lying on them as outside
IqrOutside_inclusive(x, q1, q3, k) ==
    \/ 4 * k.d * x <= k.d * q1 - k.n * (q3 - q1)
    \/ 4 * k.d * x >= k.d * q3 + k.n * (q3 - q1)

\* (x < Q1 - k * IQR) | (x > Q3 + k * IQR), the quartiles in quarters
IqrOutside(x, q1, q3, k) ==
    \/ 4 * k.d * x < k.d * q1 - k.n * (q3 - q1)
    \/ 4 * k.d * x > k.d * q3 + k.n * (q3 - q1)

\* the flags without the test of std against 0
OutlierFlags_unguarded(rows, field, method, k) ==
    LET xs == [i \in 1..Len(rows) |-> rows[i][field].v]
    IN  IF method = "zscore"
        THEN LET st == ColumnStats(rows, field)
             IN  [i \in 1..Len(rows) |-> ZAbsAbove(xs[i], st, k)]
        ELSE LET q1 == Quantile4(xs, 1)
                 q3 == Quantile4(xs, 3)
             IN  [i \in 1..Len(rows) |-> IqrOutside(xs[i], q1, q3, k)]

\* the flags of find_outliers over the rows with a value in the field
OutlierFlags(rows, field, method, k) ==
    LET xs == [i \in 1..Len(rows) |-> rows[i][field].v]
    IN  IF method = "zscore"
        THEN LET st == ColumnStats(rows, field)
             IN  [i \in 1..Len(rows) |-> st.q # 0 /\ ZAbsAbove(xs[i], st, k)]
        ELSE LET q1 == Quantile4(xs, 1)
                 q3 == Quantile4(xs, 3)
             IN  [i \in 1..Len(rows) |-> IqrOutside(xs[i], q1, q3, k)]

\* water_quality_api.py (the earlier API), detect_outliers: the mask over
\* rows that all have a value in the field. The z-score branch has no test
\* of std: with std = 0 every score is 0 / 0 = NaN, with one row std itself
\* is NaN, and NaN > k is False for every k.
detect_outliers(rows, field, method, k) ==
    LET xs == [i \in 1..Len(rows) |-> rows[i][field].v]
        st == ColumnStats(rows, field)
        Q1 == Quantile4(xs, 1)
        Q3 == Quantile4(xs, 3)
    IN  IF method = "iqr"
        THEN [i \in 1..Len(rows) |->
                 \/ 4 * k.d * xs[i] < k.d * Q1 - k.n * (Q3 - Q1)
                 \/ 4 * k.d * xs[i] > k.d * Q3 + k.n * (Q3 - Q1)]
        ELSE [i \in 1..Len(rows) |->
                 IF st.n < 2 \/ st.q = 0 THEN FALSE
                 ELSE IF k.n < 0 THEN TRUE
                 ELSE k.d * k.d * (st.n - 1) * (st.n * xs[i] - st.s) * (st.n * xs[i] - st.s)
                          > k.n * k.n * st.q]

\* find_outliers. status 500 with unhandled = TRUE is an exception that
\* leaves the handler (the KeyError of df.dropna(subset=[field]) on a frame
\* without columns).
find_outliers(coll, args) ==
    LET field  == IF Has(args, "field") THEN args["field"] ELSE "None"
        method == IF Has(args, "method") THEN args["method"] ELSE "iqr"
        k_factor ==
            IF Has(args, "k") THEN ParseFloat(args["k"])
            ELSE IF method = "iqr" THEN [ok |-> TRUE, n |-> 15, d |-> 10]
            ELSE [ok |-> TRUE, n |-> 3, d |-> 1]
        projection == {field, "timestamp", "latitude", "longitude"}
        all_items == find(coll, <<>>)
        rows == SelectSeq(all_items, LAMBDA d : d[field].k = "num")
    IN  IF ~k_factor.ok THEN Failure(400, "Invalid factor 'k'.", 0)
        ELSE IF field \notin {"temperature", "salinity", "odo"}
        THEN Failure(400, "Invalid field specified.", 0)
        ELSE IF all_items = <<>>
        THEN [status |-> 500, unhandled |-> TRUE, reads |-> 1]
        ELSE IF rows = <<>>
        THEN [status |-> 200, outliers |-> <<>>, reads |-> 1]
        ELSE IF method \notin {"zscore", "iqr"}
        THEN Failure(400, "Invalid outlier method. Use 'iqr' or 'zscore'.", 1)
        ELSE LET outliers ==
                     CHOOSE picked \in
                         {SelectSeq([i \in 1..Len(rows) |-> [i |-> i, row |-> rows[i]]],
                                    LAMBDA e : flags[e.i]) :
                             flags \in {OutlierFlags(rows, field, method,
                                                     [n |-> k_factor.n, d |-> k_factor.d])}} : TRUE
                 outlier_records ==
                     [i \in 1..Len(outliers) |->
                         convert_decimals_to_float(
                             [c \in projection |-> outliers[i].row[c]])]
             IN  [status |-> 200, outliers |-> outlier_records,
                  count |-> Len(outlier_records), reads |-> 1]

----------------------------------------------------------------------------
(* the input files *)

\* rows of the long files
BaseRows == 10
BulkRows == 1001

At(sec) == <<2022, 1, 1, 0, 0, sec, 0>>

GoodHeader ==
    <<"timestamp", "latitude", "longitude", "temperature", "salinity", "odo">>

AsvHeader ==
    <<"Date m/d/y", "Time hh:mm:ss", "Latitude", "Long", "Temp C", "Sal ppt",
      "ODO mg/L", "Depth m">>

GoodRowAt(d, temp, sal, odo) ==
    <<Dt(d), Num(26), Num(-80), Num(temp), Num(sal), Num(odo)>>

GoodRow(sec, temp, sal, odo) == GoodRowAt(At(sec), temp, sal, odo)

AsvRow(date, time, lat, temp, sal, odo) ==
    <<date, time, lat, Num(-80), temp, sal, odo, Num(1)>>

Day == DateOf(<<2022, 1, 1>>)
Clock(sec) == TimeOf(<<0, 0, sec>>)

File(header, rows) ==
    [exists |-> TRUE, readable |-> TRUE, header |-> header, rows |-> rows]

\* no file at the path (FileNotFoundError)
MissingFile ==
    [exists |-> FALSE, readable |-> FALSE, header |-> <<>>, rows |-> <<>>]

\* a file pd.read_csv cannot parse
UnreadableFile ==
    [exists |-> TRUE, readable |-> FALSE, header |-> <<>>, rows |-> <<>>]

\* canonical headers, rows out of chronological order
CleanFile ==
    File(GoodHeader,
         <<GoodRow(3, 22, 31, 7), GoodRow(1, 20, 30, 8),
           GoodRowAt(<<2022, 1, 1, 0, 0, 1, 200000>>, 24, 33, 6)>>)

\* raw ASV headers, separate date and time, cells that do not parse
DirtyFile ==
    File(AsvHeader,
         <<AsvRow(Day, Clock(2), Num(26), Num(21), Num(30), Num(8)),
           AsvRow(Text, Clock(2), Num(26), Num(21), Num(30), Num(8)),
           AsvRow(Day, Clock(4), Num(26), Inf, Num(30), Num(8)),
           AsvRow(Day, Clock(4), Num(26), Num(21), Text, Num(8)),
           AsvRow(Day, Clock(4), NaN, Num(21), Num(30), NaN),
           AsvRow(Day, Clock(1), Num(26), Num(23), Num(32), Num(9)),
           AsvRow(Day, Clock(5), Num(26), Num(27), Num(35), Num(5))>>)

\* no dissolved-oxygen column
NoOdoFile ==
    File(<<"timestamp", "latitude", "longitude", "temperature", "salinity">>,
         <<<<Dt(At(6)), Num(26), Num(-80), Num(19), Num(29)>>>>)

\* every column, and no row with a value in each of them
IncompleteFile ==
    File(GoodHeader,
         <<<<Dt(At(9)), Num(26), Num(-80), Num(20), Num(30), NaN>>>>)

\* two temperature columns, the later one under the canonical name
CollideCanonicalFile ==
    File(<<"Timestamp", "Latitude", "Longitude", "Temp C", " Temperature ",
           "Salinity", "ODO">>,
         <<<<Dt(At(7)), Num(26), Num(-80), Num(18), Num(24), Num(30), Num(8)>>>>)

\* two temperature columns, both under aliases
CollideAliasFile ==
    File(<<"Timestamp", "Latitude", "Longitude", "Temp C", "Temp (C)",
           "Salinity", "ODO">>,
         <<<<Dt(At(8)), Num(26), Num(-80), Num(18), Num(24), Num(30), Num(8)>>>>)

\* BaseRows rows with the same readings, one a second
BaseFile ==
    File(GoodHeader, [i \in 1..BaseRows |-> GoodRow(10 + i, 20, 30, 8)])

\* one row far from the others
OutlierFile ==
    File(GoodHeader, <<GoodRow(5, 40, 30, 8)>>)

\* temperatures 1, 2, 3, 4 and 100
QuartileFile ==
    File(GoodHeader,
         <<GoodRow(1, 1, 30, 8), GoodRow(2, 2, 30, 8), GoodRow(3, 3, 30, 8),
           GoodRow(4, 4, 30, 8), GoodRow(5, 100, 30, 8)>>)

\* BulkRows rows with the same readings over three instants
BulkFile ==
    File(GoodHeader, [i \in 1..BulkRows |-> GoodRow(1 + (i % 3), 20, 30, 8)])

BuildCatalog ==
    {MissingFile, UnreadableFile, CleanFile, DirtyFile, NoOdoFile,
     IncompleteFile, CollideCanonicalFile, CollideAliasFile, BaseFile, OutlierFile}

----------------------------------------------------------------------------
(* WaterQualityDB.__init__ *)

apiState == <<req, resp>>
isoState == <<iso_string, iso_result>>
dbState ==
    <<files, legacy_iso, pc, df, loaded_df, collection, original_rows,
      removed_outliers, remaining_rows>>
buildState ==
    <<files, legacy_iso, pc, df, loaded_df, original_rows, removed_outliers,
      remaining_rows>>

NoReq == [op |-> "none"]
NoResp == [status |-> 0]

InitCommon ==
    /\ pc = "start"
    /\ df = EmptyFrame
    /\ loaded_df = EmptyFrame
    /\ collection = <<>>
    /\ original_rows = 0
    /\ removed_outliers = 0
    /\ remaining_rows = 0
    /\ req = NoReq
    /\ resp = NoResp
    /\ iso_string = <<>>
    /\ iso_result = NoneDt

\* df = self._load_and_standardize_data(), run when the collection is empty
InitLoad ==
    /\ pc = "start"
    /\ collection = <<>>
    /\ \E r \in _load_and_standardize_data(files) :
        /\ pc' = IF r.raised THEN "crashed" ELSE "loaded"
        /\ df' = r.frame
        /\ loaded_df' = r.frame
        /\ original_rows' = IF r.counted < 0 THEN original_rows ELSE r.counted
    /\ UNCHANGED <<files, legacy_iso, collection, removed_outliers,
                   remaining_rows, apiState, isoState>>

\* df = self._clean_outliers(df)
InitClean ==
    /\ pc = "loaded"
    /\ LET r == _clean_outliers(df, original_rows, removed_outliers, remaining_rows)
       IN  /\ df' = r.frame
           /\ removed_outliers' = r.removed
           /\ remaining_rows' = r.remaining
    /\ pc' = "cleaned"
    /\ UNCHANGED <<files, legacy_iso, loaded_df, collection, original_rows,
                   apiState, isoState>>

\* self._insert_data(df); the module's import then completes
InitInsert ==
    /\ pc = "cleaned"
    /\ collection' = _insert_data(collection, df)
    /\ pc' = "serving"
    /\ UNCHANGED <<files, legacy_iso, df, loaded_df, original_rows,
                   removed_outliers, remaining_rows, apiState, isoState>>

\* data/water_quality_db.py on its own, over every assignment of the
\* catalogue's files to the paths
BuildInit ==
    /\ InitCommon
    /\ legacy_iso = FALSE
    /\ files \in [1..NumPaths -> BuildCatalog]

BuildNext == InitLoad \/ InitClean \/ InitInsert

SpecBuild == BuildInit /\ [][BuildNext]_vars


----------------------------------------------------------------------------
(* the requests *)

Pad(n, width) == ZFill(IntToDigits(n), width)

\* datetime.isoformat()
isoformat(d) ==
    Pad(d[1], 4) \o <<"-">> \o Pad(d[2], 2) \o <<"-">> \o Pad(d[3], 2) \o <<"T">>
        \o Pad(d[4], 2) \o <<":">> \o Pad(d[5], 2) \o <<":">> \o Pad(d[6], 2)
        \o (IF d[7] = 0 THEN <<>> ELSE <<".">> \o Pad(d[7], 6))

\* a date-time text: the seconds, then '.' and the fraction digits when
\* there are any, then the UTC mark or offset
IsoText(d, fraction, zone) ==
    isoformat([d EXCEPT ![7] = 0])
        \o (IF fraction = <<>> THEN <<>> ELSE <<".">> \o fraction)
        \o zone

NoZone == <<>>
Zulu == <<"Z">>
East == <<"+", "0", "5", ":", "0", "0">>
West == <<"-", "0", "5", ":", "0", "0">>

Garbage == <<"a", "b", "c">>

\* a key that may be absent: the empty mapping, or the key with a value
Opt(key, values) == {<<>>} \cup {key :> v : v \in values}

StartTexts ==
    {IsoText(At(2), <<>>, NoZone), IsoText(At(1), <<"5">>, NoZone), Garbage}

EndTexts ==
    {IsoText(At(2), <<>>, NoZone), SubSeq(IsoText(At(2), <<>>, NoZone), 1, 10)}

\* every combination of the eight bounds, default paging
FilterArgs ==
    {a @@ b @@ c @@ d @@ e @@ f @@ g @@ h :
        a \in Opt("start", StartTexts),
        b \in Opt("end", EndTexts),
        c \in Opt("min_temp", {<<"2", "1">>, Garbage}),
        d \in Opt("max_temp", {<<"2", "2">>}),
        e \in Opt("min_sal", {<<"3", "0", ".", "5">>}),
        f \in Opt("max_sal", {<<"3", "1">>}),
        g \in Opt("min_odo", {<<"8">>}),
        h \in Opt("max_odo", {<<"8">>})}

LimitTexts ==
    {<<"0">>, <<"1">>, <<"2">>, <<"3">>, <<"6", "0", "0">>, IntToDigits(MaxLimit),
     IntToDigits(2 * MaxLimit), <<"-", "1">>, Garbage}

SkipTexts ==
    {<<"0">>, <<"1">>, <<"2">>, <<"4">>, <<"6", "0", "0">>, IntToDigits(MaxLimit),
     IntToDigits(MaxLimit + 2), <<"-", "1">>, Garbage}

\* a few filters under every paging
PagingArgs ==
    {a @@ b @@ c :
        a \in {<<>>, "start" :> IsoText(At(2), <<>>, NoZone),
               "min_temp" :> <<"2", "1">>, "max_odo" :> <<"7">>},
        b \in Opt("limit", LimitTexts),
        c \in Opt("skip", SkipTexts)}

ObservationArgs == FilterArgs \cup PagingArgs

OutlierArgs ==
    {a @@ b @@ c :
        a \in Opt("field", {"temperature", "odo", "depth"}),
        b \in Opt("method", {"iqr", "zscore", "mad"}),
        c \in Opt("k", {<<"0">>, <<"1", ".", "5">>, <<"3">>, <<"-", "1">>, Garbage})}

\* `from water_quality_db import db_manager` raises ImportError: the except
\* branch leaves db_collection = None and the module goes on to serve
ImportFails ==
    /\ pc = "start"
    /\ pc' = "no_database"
    /\ UNCHANGED <<files, legacy_iso, df, loaded_df, collection, original_rows,
                   removed_outliers, remaining_rows, apiState, isoState>>

\* the module has been imported and app.run is answering requests
Running == pc \in {"serving", "no_database"}

\* if db_collection is None: return {"error": "Database not initialized."}, 500
NotInitialized == Failure(500, "Database not initialized.", 0)

Guarded(response) == IF pc = "no_database" THEN NotInitialized ELSE response

\* what a handler leaves in the collection: find() hands out copies of the
\* documents, and the handlers write to those copies only
\* the stored documents themselves converted for output
collection_converted(coll) == Items(coll)

collection_after(coll) == coll

\* query strings of GET /api/stats, which reads none of them
StatsArgs ==
    {<<>>,
     "start" :> IsoText(At(2), <<>>, NoZone),
     "min_temp" :> <<"2", "1">>,
     "max_odo" :> Garbage,
     ("limit" :> <<"1">>) @@ ("skip" :> <<"1">>)}

\* GET /api/observations
GetObservations ==
    /\ Running
    /\ req = NoReq
    /\ \E args \in ObservationArgs :
        /\ req' = [op |-> "observations", args |-> args]
        /\ resp' = Guarded(get_observations(collection, args))
    /\ collection' = collection_after(collection)
    /\ UNCHANGED <<buildState, isoState>>

\* GET /api/stats
GetStats ==
    /\ Running
    /\ req = NoReq
    /\ \E args \in StatsArgs :
        /\ req' = [op |-> "stats", args |-> args]
        /\ resp' = Guarded(get_stats(collection))
    /\ collection' = collection_after(collection)
    /\ UNCHANGED <<buildState, isoState>>

\* GET /api/outliers
FindOutliers ==
    /\ Running
    /\ req = NoReq
    /\ \E args \in OutlierArgs :
        /\ req' = [op |-> "outliers", args |-> args]
        /\ resp' = Guarded(find_outliers(collection, args))
    /\ collection' = collection_after(collection)
    /\ UNCHANGED <<buildState, isoState>>

\* GET /api/health
HealthCheck ==
    /\ Running
    /\ req = NoReq
    /\ req' = [op |-> "health", args |-> <<>>]
    /\ resp' = health_check
    /\ UNCHANGED <<dbState, isoState>>

\* the response goes out and the server takes the next request
ReturnResponse ==
    /\ req # NoReq
    /\ req' = NoReq
    /\ resp' = NoResp
    /\ UNCHANGED <<dbState, isoState>>

\* the files found at the paths when the API process starts
AllMissing == <<MissingFile, MissingFile, MissingFile, MissingFile>>
Mixed == <<CleanFile, DirtyFile, MissingFile, UnreadableFile>>
WithOutlier == <<BaseFile, OutlierFile, MissingFile, CollideAliasFile>>
Incomplete == <<NoOdoFile, CollideCanonicalFile, MissingFile, MissingFile>>
Bulk == <<BulkFile, MissingFile, MissingFile, MissingFile>>
Quartiles == <<QuartileFile, MissingFile, MissingFile, MissingFile>>

ServeScenarios == {AllMissing, Mixed, WithOutlier, Incomplete, Quartiles}

Init ==
    /\ InitCommon
    /\ legacy_iso \in BOOLEAN
    /\ files \in ServeScenarios

Next ==
    \/ ImportFails
    \/ InitLoad
    \/ InitClean
    \/ InitInsert
    \/ GetObservations
    \/ GetStats
    \/ FindOutliers
    \/ HealthCheck
    \/ ReturnResponse

Spec == Init /\ [][Next]_vars

----------------------------------------------------------------------------
(* /api/observations over a store longer than the cap on limit *)

\* GET /api/observations with paging parameters
GetPage ==
    /\ Running
    /\ req = NoReq
    /\ \E args \in PagingArgs :
        /\ req' = [op |-> "observations", args |-> args]
        /\ resp' = Guarded(get_observations(collection, args))
    /\ collection' = collection_after(collection)
    /\ UNCHANGED <<buildState, isoState>>

PagingInit ==
    /\ InitCommon
    /\ legacy_iso \in BOOLEAN
    /\ files \in {Bulk, Mixed}

PagingNext ==
    \/ InitLoad
    \/ InitClean
    \/ InitInsert
    \/ GetPage
    \/ ReturnResponse

SpecPaging == PagingInit /\ [][PagingNext]_vars

----------------------------------------------------------------------------
(* safe_iso_to_datetime on its own *)

IsoBases == {At(0), <<2021, 12, 16, 23, 59, 59, 0>>}

IsoFractions ==
    {<<>>, <<"5">>, <<"1", "2">>, <<"1", "2", "3">>, <<"0", "0", "0", "1">>,
     <<"1", "2", "3", "4", "5">>, <<"1", "2", "3", "4", "5", "6">>,
     <<"1", "2", "3", "4", "5", "6", "7">>,
     <<"1", "2", "3", "4", "5", "6", "7", "8", "9">>}

IsoZones == {NoZone, Zulu, East, West}

MalformedIso ==
    {<<>>, Garbage, <<".">>,
     IsoText(At(0), <<>>, NoZone) \o <<".">>,
     IsoText(At(0), <<"1", "x">>, NoZone),
     IsoText(<<2022, 13, 1, 0, 0, 0, 0>>, <<"5">>, NoZone),
     IsoText(<<2022, 2, 30, 0, 0, 0, 0>>, <<>>, NoZone),
     IsoText(<<2022, 1, 1, 24, 0, 0, 0>>, <<"1", "2", "3", "4", "5", "6", "7">>, NoZone)}

IsoInputs ==
    {IsoText(d, f, z) : d \in IsoBases, f \in IsoFractions, z \in IsoZones}
        \cup MalformedIso

CallSafeIso ==
    /\ \E s \in IsoInputs :
        /\ iso_string' = s
        /\ iso_result' = safe_iso_to_datetime(s)
    /\ UNCHANGED <<dbState, apiState>>

IsoInit ==
    /\ InitCommon
    /\ legacy_iso \in BOOLEAN
    /\ files = [i \in 1..NumPaths |-> MissingFile]

IsoNext == CallSafeIso

SpecIso == IsoInit /\ [][IsoNext]_vars

----------------------------------------------------------------------------
(* the store after initialization *)

SixFields ==
    {"timestamp", "latitude", "longitude", "temperature", "salinity", "odo"}

\* C1: once WaterQualityDB.__init__ has run (load, clean, insert), every
\* document of the store carries the six fields timestamp, latitude,
\* longitude, temperature, salinity and odo, none of them null, whatever
\* files were found at the four paths.
C1_StoredRowsComplete ==
    pc = "serving" =>
        \A i \in 1..Len(collection) :
            /\ SixFields \subseteq DOMAIN collection[i]
            /\ \A c \in SixFields : collection[i][c].k \notin {"none", "nan"}

\* a store filled from files of which some rows were discarded and one
\* file lacked a column
C1_Witness ==
    /\ pc = "serving"
    /\ Len(collection) > 0
    /\ Len(collection) < original_rows
    /\ \E i \in 1..NumPaths : files[i] = DirtyFile
    /\ \E i \in 1..NumPaths : files[i] = NoOdoFile

----------------------------------------------------------------------------
(* the cleaner *)

\* sum and sum of squares of a column
SumOf(rows, col) ==
    SumRange([i \in 1..Len(rows) |-> rows[i][col].v], 1, Len(rows))
SumSqOf(rows, col) ==
    SumRange([i \in 1..Len(rows) |-> rows[i][col].v * rows[i][col].v], 1, Len(rows))

\* |x - mean| / std > 3 with mean = s / n and std^2 = (n * ss - s^2) / (n * (n - 1)),
\* the z-score being 0 when std = 0
ExceedsThree(x, m) ==
    /\ m.n >= 2
    /\ m.n * m.ss - m.s * m.s # 0
    /\ (m.n - 1) * (m.n * x - m.s) * (m.n * x - m.s)
           > 9 * m.n * (m.n * m.ss - m.s * m.s)

\* the rows of a table none of whose three z-scores exceeds 3.0, the mean
\* and std being those of the whole table
WithinThree(rows) ==
    CHOOSE kept \in
        {SelectSeq(rows, LAMBDA row :
             \A c \in {"temperature", "salinity", "odo"} : ~ExceedsThree(row[c].v, m[c])) :
           m \in {[c \in {"temperature", "salinity", "odo"} |->
                      [n |-> Len(rows), s |-> SumOf(rows, c), ss |-> SumSqOf(rows, c)]]}} :
        TRUE

\* C2: _clean_outliers removes a row if and only if one of its temperature,
\* salinity or odo z-scores |value - mean| / std exceeds 3.0, mean and std
\* being those of the whole table of complete rows it was given and the
\* z-score being 0 when std = 0: the cleaned rows are exactly the rows of
\* the loaded table within the threshold, in the same order.
C2_CleanerRemovesExactlyOutliers ==
    pc \in {"cleaned", "serving"} =>
        /\ df.rows = WithinThree(loaded_df.rows)
        /\ \A i \in 1..Len(collection) :
               \A c \in {"temperature", "salinity", "odo"} :
                   ~ExceedsThree(collection[i][c].v,
                                 [n |-> Len(loaded_df.rows),
                                  s |-> SumOf(loaded_df.rows, c),
                                  ss |-> SumSqOf(loaded_df.rows, c)])

\* the cleaner has removed a row and kept rows whose readings differ
C2_Witness ==
    /\ pc = "cleaned"
    /\ 0 < Len(df.rows)
    /\ Len(df.rows) < Len(loaded_df.rows)
    /\ \E i, j \in 1..Len(df.rows) :
           df.rows[i]["temperature"] # df.rows[j]["temperature"]

----------------------------------------------------------------------------
(* order *)

IsSortedByTimestamp(rows) ==
    \A i \in 1..(Len(rows) - 1) :
        DtLeq(rows[i]["timestamp"].v, rows[i + 1]["timestamp"].v)

\* C3: the cleaned dataset is in non-decreasing timestamp order, and so are
\* the items of every response to an observations query, whatever its
\* filter, skip and limit.
C3_SortedByTimestamp ==
    /\ pc \in {"cleaned", "serving"} => IsSortedByTimestamp(df.rows)
    /\ (req.op = "observations" /\ resp.status = 200)
           => IsSortedByTimestamp(resp.items)

\* a filtered page of several instants, past the first match, from files
\* whose rows were not in time order
C3_Witness ==
    /\ files = Mixed
    /\ req.op = "observations"
    /\ resp.status = 200
    /\ Has(req.args, "skip") /\ req.args["skip"] = <<"1">>
    /\ Has(req.args, "min_temp")
    /\ Len(resp.items) >= 2
    /\ resp.items[1]["timestamp"] # resp.items[Len(resp.items)]["timestamp"]

----------------------------------------------------------------------------
(* paging *)

\* the filter parameters of a query string
FilterOf(args) == [key \in DOMAIN args \ {"limit", "skip"} |-> args[key]]

\* items of GET /api/observations with the filter, skip and limit given
Page(filter, skip, limit) ==
    get_observations(collection,
        filter @@ ("skip" :> IntToDigits(skip)) @@ ("limit" :> IntToDigits(limit))).items

Answered == req.op = "observations" /\ resp.status = 200

\* the response in hand is the page skip = L, limit = L for some L > 0
SecondPage ==
    /\ Answered
    /\ Has(req.args, "skip") /\ Has(req.args, "limit")
    /\ req.args["skip"] = req.args["limit"]
    /\ ParseInt(req.args["limit"]).v > 0

\* C4: for every filter and every L > 0, the items of the query skip = 0,
\* limit = L followed by the items of the query skip = L, limit = L make,
\* once cut to the cap of 1000 items, the same sequence in the same order
\* as the items of the query skip = 0, limit = 2L.
C4_PagesConcatenate ==
    SecondPage =>
        LET L == ParseInt(req.args["limit"]).v
        IN  Prefix(Page(FilterOf(req.args), 0, L) \o resp.items, MaxLimit)
                = Page(FilterOf(req.args), 0, 2 * L)

\* a second page of a store longer than the cap: the two pages together
\* hold more than 1000 items
C4_Witness ==
    /\ SecondPage
    /\ files = Bulk
    /\ ParseInt(req.args["limit"]).v < MaxLimit
    /\ ParseInt(req.args["limit"]).v + Len(resp.items) > MaxLimit

\* C5, as the specification states it: the count reported for a filter is
\* the number of items of the query with that filter, skip = 0 and limit
\* set to the count.
C5_CountIsLength ==
    Answered => Len(Page(FilterOf(req.args), 0, resp.count)) = resp.count

\* C5, amended: the query with the same filter, skip = 0 and limit set to
\* the reported count returns as many items as the count when the count is
\* at most 1000, and 1000 items when it is more.
C5_CountIsLengthUpToCap ==
    Answered =>
        Len(Page(FilterOf(req.args), 0, resp.count)) = Min(resp.count, MaxLimit)

\* a filter was answered with a count above the cap
C5_Witness ==
    /\ Answered
    /\ resp.count > MaxLimit

\* limit as the request gives it
RequestedLimit(args) ==
    IF Has(args, "limit") THEN ParseInt(args["limit"]).v ELSE DefaultLimit

\* C6: a response to an observations request with non-negative integer
\* skip and limit holds at most limit items and at most 1000 items, limit
\* = 0 included.
C6_AtMostLimit ==
    Answered =>
        /\ Len(resp.items) <= RequestedLimit(req.args)
        /\ Len(resp.items) <= MaxLimit

\* the number of stored documents the query built from the filter selects
MatchCount(args) ==
    Cardinality({i \in 1..Len(collection) :
                    Matches(collection[i], build_mongo_query(args).query)})

\* a request whose filter, skip and limit all pass validation
WellFormedPaging(args) ==
    /\ build_mongo_query(args).error = ""
    /\ Has(args, "skip") => ParseInt(args["skip"]).ok /\ ParseInt(args["skip"]).v >= 0
    /\ Has(args, "limit") => ParseInt(args["limit"]).ok /\ ParseInt(args["limit"]).v >= 0

\* C7: an observations request whose skip is larger than the number of
\* documents matching its filter is answered without error, with no items
\* and with the true number of matches as count.
C7_SkipBeyondMatches ==
    (/\ req.op = "observations"
     /\ WellFormedPaging(req.args)
     /\ Has(req.args, "skip")
     /\ ParseInt(req.args["skip"]).v > MatchCount(req.args))
        => /\ resp.status = 200
           /\ resp.items = <<>>
           /\ resp.count = MatchCount(req.args)

\* a skip past the matches of a filter that matches some documents but
\* not all
C7_Witness ==
    /\ req.op = "observations"
    /\ WellFormedPaging(req.args)
    /\ Has(req.args, "skip")
    /\ ParseInt(req.args["skip"]).v > MatchCount(req.args)
    /\ 0 < MatchCount(req.args)
    /\ MatchCount(req.args) < Len(collection)
    /\ resp.status = 200

----------------------------------------------------------------------------
(* filtering *)

HalfPastOne == <<2022, 1, 1, 0, 0, 1, 500000>>

\* the instant a date-time text of the requests denotes
InstantMeant(text) ==
    CASE text = IsoText(At(2), <<>>, NoZone) -> At(2)
      [] text = IsoText(At(1), <<"5">>, NoZone) -> HalfPastOne
      [] text = SubSeq(IsoText(At(2), <<>>, NoZone), 1, 10) -> At(0)

\* the number a numeric text of the requests denotes, as a fraction
NumberMeant(text) ==
    CASE text = <<"2", "1">> -> [n |-> 21, d |-> 1]
      [] text = <<"2", "2">> -> [n |-> 22, d |-> 1]
      [] text = <<"3", "0", ".", "5">> -> [n |-> 61, d |-> 2]
      [] text = <<"3", "1">> -> [n |-> 31, d |-> 1]
      [] text = <<"8">> -> [n |-> 8, d |-> 1]
      [] text = <<"7">> -> [n |-> 7, d |-> 1]

AtLeast(cell, args, key) ==
    Has(args, key) => NumberMeant(args[key]).n <= cell.v * NumberMeant(args[key]).d

AtMost(cell, args, key) ==
    Has(args, key) => cell.v * NumberMeant(args[key]).d <= NumberMeant(args[key]).n

\* the document lies within every bound the request supplies, inclusively
WithinBounds(doc, args) ==
    /\ Has(args, "start") => DtLeq(InstantMeant(args["start"]), doc["timestamp"].v)
    /\ Has(args, "end") => DtLeq(doc["timestamp"].v, InstantMeant(args["end"]))
    /\ AtLeast(doc["temperature"], args, "min_temp")
    /\ AtMost(doc["temperature"], args, "max_temp")
    /\ AtLeast(doc["salinity"], args, "min_sal")
    /\ AtMost(doc["salinity"], args, "max_sal")
    /\ AtLeast(doc["odo"], args, "min_odo")
    /\ AtMost(doc["odo"], args, "max_odo")

\* every bound supplied is well formed, and paging is left to its defaults
ValidFilter(args) ==
    /\ \A key \in DOMAIN args : args[key] # Garbage
    /\ ~Has(args, "limit")
    /\ ~Has(args, "skip")

\* C8: for every valid combination of start, end, min_temp, max_temp,
\* min_sal, max_sal, min_odo and max_odo, the documents counted and
\* returned by the observations query are exactly the stored documents
\* within every supplied bound, inclusively; a bound that is not supplied
\* constrains nothing.
C8_FilterExact ==
    (req.op = "observations" /\ ValidFilter(req.args)) =>
        LET within == SelectSeq(collection, LAMBDA doc : WithinBounds(doc, req.args))
        IN  /\ resp.status = 200
            /\ resp.count = Len(within)
            /\ SeqToSet(resp.items) = SeqToSet(Items(within))

----------------------------------------------------------------------------
(* date-time bounds *)

\* the microseconds of a fraction of a second: its first six digits, with
\* zeros after them when there are fewer
Microseconds(fraction) ==
    DigitsToInt(Prefix(fraction \o Zeros(6), 6))

\* C9: a well-formed date-time with a fraction of a second, followed or
\* not by Z or by a +hh:mm or -hh:mm offset, is accepted, and
\* safe_iso_to_datetime returns the naive date-time of the same wall-clock
\* instant to the microsecond: the first six digits of the fraction are
\* kept, and a shorter fraction is completed with zeros without changing
\* its value.
C9_FractionKept ==
    \A d \in IsoBases, fraction \in IsoFractions \ {<<>>}, zone \in IsoZones :
        iso_string = IsoText(d, fraction, zone) =>
            iso_result = SomeDt([d EXCEPT ![7] = Microseconds(fraction)])

----------------------------------------------------------------------------
(* validation *)

FilterKeys ==
    {"start", "end", "min_temp", "max_temp", "min_sal", "max_sal", "min_odo",
     "max_odo"}

\* the request carries a malformed bound, a field outside temperature,
\* salinity and odo, a method outside iqr and zscore, or a k that is no
\* number
ValidationError ==
    \/ /\ req.op = "observations"
       /\ \E key \in FilterKeys \cap DOMAIN req.args : req.args[key] = Garbage
    \/ /\ req.op = "outliers"
       /\ \/ ~Has(req.args, "field")
          \/ Has(req.args, "field")
                 /\ req.args["field"] \notin {"temperature", "salinity", "odo"}
          \/ Has(req.args, "method") /\ req.args["method"] \notin {"iqr", "zscore"}
          \/ Has(req.args, "k") /\ req.args["k"] = Garbage

\* C10: every request carrying a validation error is answered 400, and the
\* store is not read for it.
C10_RejectedBeforeRead ==
    ValidationError => resp.status = 400 /\ resp.reads = 0

----------------------------------------------------------------------------
(* an unavailable dataset *)

\* the build never completed (db_collection is None) or it produced no rows
Unavailable == pc = "no_database" \/ (pc = "serving" /\ collection = <<>>)

\* C11: while the dataset is unavailable, every observations, stats and
\* outliers request is answered with a server-side failure carrying an
\* error, never with a success payload and never with the 400 of a
\* validation error.
C11_UnavailableIsFailure ==
    (Unavailable /\ req.op \in {"observations", "stats", "outliers"}) =>
        /\ resp.status >= 500
        /\ "error" \in DOMAIN resp

----------------------------------------------------------------------------
(* statistics *)

Measured == {"temperature", "salinity", "odo"}

\* positions of the stored documents with a value in the field
Valued(field) == {i \in 1..Len(collection) : collection[i][field].k = "num"}

\* the k-th smallest of the values of the field
Ranked(field, k) ==
    CHOOSE v \in {collection[i][field].v : i \in Valued(field)} :
        /\ Cardinality({i \in Valued(field) : collection[i][field].v < v}) < k
        /\ k <= Cardinality({i \in Valued(field) : collection[i][field].v <= v})

\* four times the quantile j / 4 of the values of the field: position
\* j * (n - 1) / 4 counted from 0, interpolated linearly between the two
\* values around it
Quartile4(field, j) ==
    LET n  == Cardinality(Valued(field))
        lo == (j * (n - 1)) \div 4
        r  == (j * (n - 1)) % 4
    IN  IF r = 0 THEN 4 * Ranked(field, lo + 1)
        ELSE (4 - r) * Ranked(field, lo + 1) + r * Ranked(field, lo + 2)

\* C12: on an available dataset the stats response holds, for each of
\* temperature, salinity and odo, the count of stored rows with a value in
\* the field, their mean, smallest and largest value and their 25%, 50%
\* and 75% quantiles by linear interpolation, all taken over the whole
\* store whatever parameters the request carries.
C12_StatsOverWholeStore ==
    (req.op = "stats" /\ pc = "serving" /\ collection # <<>>) =>
        /\ resp.status = 200
        /\ DOMAIN resp.stats = Measured
        /\ \A f \in Measured :
            /\ resp.stats[f].count = Cardinality(Valued(f))
            /\ resp.stats[f].mean.d = Cardinality(Valued(f))
            /\ resp.stats[f].mean.n =
                   SumRange([i \in 1..Len(collection) |->
                                IF i \in Valued(f) THEN collection[i][f].v ELSE 0],
                            1, Len(collection))
            /\ resp.stats[f].min = Ranked(f, 1)
            /\ resp.stats[f].max = Ranked(f, Cardinality(Valued(f)))
            /\ resp.stats[f].q25 = Quartile4(f, 1)
            /\ resp.stats[f].q50 = Quartile4(f, 2)
            /\ resp.stats[f].q75 = Quartile4(f, 3)

\* statistics asked with a filter in the query string, over a store whose
\* quartiles fall between two different values
C12_Witness ==
    /\ req.op = "stats"
    /\ Has(req.args, "min_temp")
    /\ pc = "serving"
    /\ collection # <<>>
    /\ resp.status = 200
    /\ resp.stats["temperature"].q25 % 4 # 0
    /\ resp.stats["temperature"].min < resp.stats["temperature"].max

\* C13: a field with no stored value is answered with a count of 0 and
\* null for the mean, the extremes and the quantiles, without an exception.
C13_NoValuesCountZero ==
    (req.op = "stats" /\ pc = "serving") =>
        /\ resp.status = 200
        /\ \A f \in Measured :
            Valued(f) = {} =>
                /\ f \in DOMAIN resp.stats
                /\ resp.stats[f].count = 0
                /\ resp.stats[f].null

----------------------------------------------------------------------------
(* outliers *)

\* the field, the method and the factor an outliers request asks for
FieldAsked == IF Has(req.args, "field") THEN req.args["field"] ELSE "None"

MethodAsked == IF Has(req.args, "method") THEN req.args["method"] ELSE "iqr"

FactorMeant ==
    IF ~Has(req.args, "k")
    THEN (IF MethodAsked = "iqr" THEN [n |-> 3, d |-> 2] ELSE [n |-> 3, d |-> 1])
    ELSE CASE req.args["k"] = <<"0">> -> [n |-> 0, d |-> 1]
           [] req.args["k"] = <<"1", ".", "5">> -> [n |-> 3, d |-> 2]
           [] req.args["k"] = <<"3">> -> [n |-> 3, d |-> 1]
           [] req.args["k"] = <<"-", "1">> -> [n |-> 0 - 1, d |-> 1]

\* an outliers request that passed validation, over a store holding rows
OutliersComputed(method) ==
    /\ req.op = "outliers"
    /\ pc = "serving"
    /\ collection # <<>>
    /\ MethodAsked = method
    /\ FieldAsked \in Measured
    /\ Has(req.args, "k") => req.args["k"] # Garbage

\* stored row i lies below Q1 - k * IQR or above Q3 + k * IQR; the
\* quartiles are in quarters and k = n / d, so every term is scaled by 4 * d
OutsideFences(i, field, k) ==
    LET x   == collection[i][field].v
        q1  == Quartile4(field, 1)
        iqr == Quartile4(field, 3) - Quartile4(field, 1)
    IN  \/ 4 * k.d * x < k.d * q1 - k.n * iqr
        \/ 4 * k.d * x > k.d * (q1 + iqr) + k.n * iqr

\* stored row i is one of the rows of the response
Reported(i, field) ==
    \E j \in 1..Len(resp.outliers) :
        /\ resp.outliers[j][field] = collection[i][field]
        /\ resp.outliers[j]["timestamp"].v = collection[i]["timestamp"].v

\* the rows of the store as the earlier API holds them
StoredRows(field) == SelectSeq(collection, LAMBDA d : d[field].k = "num")

\* C14: with method iqr and factor k a stored row is reported exactly when
\* its value is below Q1 - k * IQR or above Q3 + k * IQR, Q1 and Q3 being the
\* linearly interpolated quartiles of the field over the whole store; both
\* APIs compute the same flags.
C14_IqrFences ==
    OutliersComputed("iqr") =>
        /\ resp.status = 200
        /\ \A i \in Valued(FieldAsked) :
               Reported(i, FieldAsked) <=> OutsideFences(i, FieldAsked, FactorMeant)
        /\ Len(resp.outliers) =
               Cardinality({i \in Valued(FieldAsked) :
                               OutsideFences(i, FieldAsked, FactorMeant)})
        /\ \A i \in 1..Len(StoredRows(FieldAsked)) :
               detect_outliers(StoredRows(FieldAsked), FieldAsked, "iqr", FactorMeant)[i]
                   <=> OutsideFences(i, FieldAsked, FactorMeant)

\* temperatures 1, 2, 3, 4, 100 with k = 0: Q1 = 2, Q3 = 4, and the rows
\* reported are exactly those of 1 and 100
C14_Witness ==
    /\ OutliersComputed("iqr")
    /\ FieldAsked = "temperature"
    /\ Has(req.args, "k")
    /\ req.args["k"] = <<"0">>
    /\ {collection[i]["temperature"].v : i \in 1..Len(collection)} = {1, 2, 3, 4, 100}
    /\ Len(collection) = 5
    /\ Quartile4("temperature", 1) = 4 * 2
    /\ Quartile4("temperature", 3) = 4 * 4
    /\ resp.status = 200
    /\ Len(resp.outliers) = 2
    /\ {resp.outliers[j]["temperature"].v : j \in 1..Len(resp.outliers)} = {1, 100}

\* every stored value of the field is the same: the standard deviation is 0
StdIsZero(field) ==
    /\ Cardinality(Valued(field)) >= 2
    /\ \A i, j \in Valued(field) : collection[i][field].v = collection[j][field].v

\* C15: with method zscore over a field whose standard deviation is exactly
\* 0 no row is reported, whatever the factor k, 0 and negative included;
\* both APIs flag nothing.
C15_ZeroStdNoOutliers ==
    (OutliersComputed("zscore") /\ StdIsZero(FieldAsked)) =>
        /\ resp.status = 200
        /\ resp.outliers = <<>>
        /\ resp.count = 0
        /\ \A i \in 1..Len(StoredRows(FieldAsked)) :
               ~detect_outliers(StoredRows(FieldAsked), FieldAsked, "zscore", FactorMeant)[i]

\* a z-score request with a negative factor over a constant field
C15_Witness ==
    /\ OutliersComputed("zscore")
    /\ StdIsZero(FieldAsked)
    /\ Has(req.args, "k")
    /\ req.args["k"] = <<"-", "1">>
    /\ resp.status = 200
    /\ resp.count = 0

\* C16: a successful outliers response is a list of rows, each with the six
\* stored fields, and a count equal to the length of the list.
C16_OutlierRowsComplete ==
    (req.op = "outliers" /\ pc = "serving" /\ resp.status = 200) =>
        /\ "count" \in DOMAIN resp
        /\ resp.count = Len(resp.outliers)
        /\ \A j \in 1..Len(resp.outliers) : SixFields \subseteq DOMAIN resp.outliers[j]

----------------------------------------------------------------------------
(* outcomes *)

\* C17: every request ends in a typed outcome, a success payload or a
\* failure carrying an error, and no exception leaves a handler, whatever
\* the state of the dataset.
C17_TypedOutcome ==
    req # NoReq =>
        /\ "unhandled" \notin DOMAIN resp
        /\ resp.status \in {200, 400, 500}
        /\ resp.status # 200 => "error" \in DOMAIN resp

----------------------------------------------------------------------------
(* the store while serving *)

\* C18: once the build has completed no step changes the stored sequence:
\* every observations, stats, outliers and health request, valid or not,
\* leaves its contents and its order as they were.
C18_StoreReadOnly ==
    [][(pc \in {"serving", "no_database"}) => (collection' = collection)]_vars

\* a rejected request in hand over a store that holds rows
C18_Witness ==
    /\ pc = "serving"
    /\ Len(collection) >= 2
    /\ req.op = "outliers"
    /\ resp.status = 400

\* the document stored for a row: the row with its timestamp cut to
\* milliseconds
StoredFrom(doc, row) ==
    /\ \A c \in Measured : doc[c] = row[c]
    /\ \A p \in 1..6 : doc["timestamp"].v[p] = row["timestamp"].v[p]
    /\ doc["timestamp"].v[7] = row["timestamp"].v[7] - (row["timestamp"].v[7] % 1000)

\* C19: a request never sees a dataset partly built. A request is in hand
\* only when the build is over: either the database is missing and the
\* request is told so without a read, or the store holds, row for row and in
\* timestamp order, all the loaded rows that the cleaning keeps and no other.
C19_NoPartialDataset ==
    req # NoReq =>
        \/ /\ pc = "no_database"
           /\ req.op # "health" => (resp.status = 500 /\ resp.reads = 0)
        \/ /\ pc = "serving"
           /\ \E kept \in {WithinThree(loaded_df.rows)} :
                /\ Len(collection) = Len(kept)
                /\ \A i \in 1..Len(kept) : StoredFrom(collection[i], kept[i])
           /\ IsSortedByTimestamp(collection)

\* a page read from a store of several rows out of which the cleaning took
\* some
C19_Witness ==
    /\ pc = "serving"
    /\ req.op = "observations"
    /\ resp.status = 200
    /\ Len(collection) >= 2
    /\ Len(collection) < Len(loaded_df.rows)
    /\ Len(resp.items) = Len(collection)

----------------------------------------------------------------------------
(* colliding columns *)

\* the files of the catalog with two temperature columns; the first of the
\* two is the fourth column of the file
TwoTemperatures == {CollideCanonicalFile, CollideAliasFile}

\* C20: a file with two columns of the same canonical name is loaded with
\* the values of the first of them: each of its rows is in the loaded table
\* with the temperature of the first column, also when the header of the
\* later column is the canonical name itself.
C20_FirstColumnSupplies ==
    pc = "loaded" =>
        \A p \in 1..NumPaths :
            files[p] \in TwoTemperatures =>
                \A r \in 1..Len(files[p].rows) :
                    \E i \in 1..Len(loaded_df.rows) :
                        /\ loaded_df.rows[i]["timestamp"] = files[p].rows[r][1]
                        /\ loaded_df.rows[i]["temperature"] = files[p].rows[r][4]

----------------------------------------------------------------------------
(* ingestion *)

\* the rows of file p as the loader standardizes them that have a value in
\* each of the six required columns
CompleteRows(p) ==
    LET r == standardize_file(files[p])
    IN  IF ~r.ok \/ ~(RequiredSet \subseteq r.frame.columns) THEN {}
        ELSE {r.frame.rows[i] : i \in
                 {j \in 1..Len(r.frame.rows) :
                     \A c \in RequiredSet :
                         r.frame.rows[j][c].k \in {"num", "dt"}}}

\* C21: whatever files are missing, unreadable or without a required
\* column, loading ends without raising and hands every complete row of the
\* files that load to the cleaner.
C21_LoadNeverFatal ==
    pc # "start" =>
        /\ pc # "crashed"
        /\ \A p \in 1..NumPaths :
               \A row \in CompleteRows(p) :
                   \E i \in 1..Len(loaded_df.rows) : loaded_df.rows[i] = row

----------------------------------------------------------------------------
(* the cleaning report *)

\* C22: once the build is over the counters of the report agree:
\* remaining_rows is the number of stored rows and original_rows is
\* removed_outliers + remaining_rows, also when every row was dropped for a
\* missing required value.
C22_CountersConsistent ==
    pc = "serving" =>
        /\ remaining_rows = Len(collection)
        /\ original_rows = removed_outliers + remaining_rows

====
